---- MODULE Spec2Model ----
(***************************************************************************)
(* QA test-plan generator: the table parser, the prioritization merge and  *)
(* the generation pipeline of utils/videoProcessor.ts (the gemini service) *)
(* together with the caller's state in App.tsx.                            *)
(*                                                                         *)
(* Text is modelled as a sequence of one-character strings, so that        *)
(* split, trim, includes and indexOf are computed as the code computes     *)
(* them.                                                                   *)
(***************************************************************************)
EXTENDS Integers, Sequences, FiniteSets, TLC

VARIABLES
    step,               \* App state (App.tsx lines 40-51); null is <<>>, a value v is <<v>>
    inputData,
    analysis,
    testCases,
    gherkin,
    traceabilityMatrix,
    qaDocs,
    enhancedPrd,
    isLoading,
    error,
    progressMessage,
    isResetModalOpen,
    tasks,              \* the handler invocations, each suspended at an await or over
    tblLayout,    \* table under parse: the column shown at each position
    tblDrop,      \* position of the header cell left out of the header row (0: none)
    tblSep,       \* kind of the separator row emitted after the header
    tblRows,      \* logical data rows: column -> cell text
    parseOut,     \* what parseMarkdownTable returned
    parsePc,      \* "input" while the table is being written, "parsed" after the call
    prioIn,       \* merge under test: the parsed records handed to _prioritizeTestCases
    prioResp,     \* the prioritized_cases array of the decoded response
    prioOut,      \* the list _prioritizeTestCases returned
    prioPc,       \* "input" until the response has arrived, "merged" after the merge
    editableTestCases,  \* TestPlanDisplay: the list it shows (part_003 line 41), null until mounted
    files,        \* PRDInput: the attachment records (PRDInput.tsx line 40)
    fileTasks,    \* the processFile invocations that have not finished
    clock         \* the least value Date.now() can return next

appVars ==
    <<step, inputData, analysis, testCases, gherkin, traceabilityMatrix, qaDocs,
      enhancedPrd, isLoading, error, progressMessage, isResetModalOpen, tasks>>
parseVars == <<tblLayout, tblDrop, tblSep, tblRows, parseOut, parsePc>>
prioVars == <<prioIn, prioResp, prioOut, prioPc, editableTestCases>>
fileVars == <<files, fileTasks, clock>>
vars == <<appVars, parseVars, prioVars, fileVars>>

Null == <<>>
Some(v) == <<v>>

----------------------------------------------------------------------------
(* Characters and strings                                                  *)

\* the character U+2192 (rightwards arrow), one code unit
Arrow == "->"

IsSpace(c) == c \in {" ", "\n", "\t"}

\* String.prototype.trimStart / trimEnd / trim
RECURSIVE TrimStart(_)
TrimStart(s) == IF s # <<>> /\ IsSpace(Head(s)) THEN TrimStart(Tail(s)) ELSE s

RECURSIVE TrimEnd(_)
TrimEnd(s) ==
    IF s # <<>> /\ IsSpace(s[Len(s)]) THEN TrimEnd(SubSeq(s, 1, Len(s) - 1)) ELSE s

Trim(s) == TrimEnd(TrimStart(s))

\* the least element of a non-empty set of positions
FirstOf(S) == CHOOSE i \in S : \A j \in S : i <= j

\* String.prototype.split(d) for a one-character delimiter: n delimiters give
\* n + 1 pieces, empty pieces included
RECURSIVE Split(_, _)
Split(s, d) ==
    LET at == {i \in 1..Len(s) : s[i] = d}
    IN  IF at = {} THEN <<s>>
        ELSE <<SubSeq(s, 1, FirstOf(at) - 1)>>
                 \o Split(SubSeq(s, FirstOf(at) + 1, Len(s)), d)

\* String.prototype.includes
Includes(s, sub) ==
    \E i \in 1..(Len(s) - Len(sub) + 1) : SubSeq(s, i, i + Len(sub) - 1) = sub

\* String.prototype.startsWith
StartsWith(s, prefix) ==
    Len(s) >= Len(prefix) /\ SubSeq(s, 1, Len(prefix)) = prefix

\* Array.prototype.indexOf: zero-based index of the first occurrence, or -1
IndexOf(arr, x) ==
    IF \E i \in 1..Len(arr) : arr[i] = x
    THEN (CHOOSE i \in 1..Len(arr) : arr[i] = x /\ \A j \in 1..(i - 1) : arr[j] # x) - 1
    ELSE -1

\* arr.map(x => x.trim()).filter(Boolean): the empty string is falsy
TrimmedNonEmpty(arr) ==
    SelectSeq([i \in 1..Len(arr) |-> Trim(arr[i])], LAMBDA x : x # <<>>)

\* cells[i] || dflt: undefined (index out of range, -1 included) and "" are falsy
CellOr(cells, i, dflt) ==
    IF i >= 0 /\ i < Len(cells) /\ cells[i + 1] # <<>> THEN cells[i + 1] ELSE dflt

----------------------------------------------------------------------------
(* parseMarkdownTable                                                      *)
HdrTestCaseID ==
    <<"T", "e", "s", "t", " ", "C", "a", "s", "e", " ", "I", "D">>
HdrTestType ==
    <<"T", "e", "s", "t", " ", "T", "y", "p", "e">>
HdrSummary ==
    <<"S", "u", "m", "m", "a", "r", "y">>
HdrPreconditions ==
    <<"P", "r", "e", "c", "o", "n", "d", "i", "t", "i", "o", "n", "s">>
HdrTestSteps ==
    <<"T", "e", "s", "t", " ", "S", "t", "e", "p", "s">>
HdrExpectedResult ==
    <<"E", "x", "p", "e", "c", "t", "e", "d", " ", "R", "e", "s", "u", "l", "t">>
HdrStoryID ==
    <<"S", "t", "o", "r", "y", " ", "I", "D">>
HdrRiskType ==
    <<"R", "i", "s", "k", " ", "T", "y", "p", "e">>
DefNA ==
    <<"N", "/", "A">>
DefNoSummary ==
    <<"N", "o", " ", "s", "u", "m", "m", "a", "r", "y">>
DefNone ==
    <<"N", "o", "n", "e">>

Dashes3 == <<"-", "-", "-">>
Pipe == <<"|">>

\* a filter that keeps every line starting with a pipe, the separator included
IsTableLineAnyPipe(line) == StartsWith(Trim(line), Pipe)

\* the filter of line 122: a line is kept when, trimmed, it starts with a pipe
\* and it does not contain three dashes in a row
IsTableLine(line) == StartsWith(Trim(line), Pipe) /\ ~Includes(line, Dashes3)

TableLines(markdown) == SelectSeq(Split(Trim(markdown), "\n"), IsTableLine)

\* headers of line 126 and headerMap of lines 127-136, keyed by field
HeaderCells(headerLine) == TrimmedNonEmpty(Split(headerLine, "|"))

HeaderMap(headers) ==
    [id             |-> IndexOf(headers, HdrTestCaseID),
     type           |-> IndexOf(headers, HdrTestType),
     summary        |-> IndexOf(headers, HdrSummary),
     preconditions  |-> IndexOf(headers, HdrPreconditions),
     steps          |-> IndexOf(headers, HdrTestSteps),
     expectedResult |-> IndexOf(headers, HdrExpectedResult),
     storyId        |-> IndexOf(headers, HdrStoryID),
     risk           |-> IndexOf(headers, HdrRiskType)]

\* a check that gives up only when no header at all is found
HeaderMissingAll(headerMap) == \A k \in DOMAIN headerMap : headerMap[k] = -1

\* line 138
HeaderMissing(headerMap) == \E k \in DOMAIN headerMap : headerMap[k] = -1

\* the row mapper of lines 145-157
RowCells(row) == TrimmedNonEmpty(Split(row, "|"))

RowRecord(row, headerMap) ==
    LET cells == RowCells(row)
    IN  [id             |-> CellOr(cells, headerMap.id, DefNA),
         type           |-> CellOr(cells, headerMap.type, DefNA),
         summary        |-> CellOr(cells, headerMap.summary, DefNoSummary),
         preconditions  |-> CellOr(cells, headerMap.preconditions, DefNone),
         steps          |-> CellOr(cells, headerMap.steps, DefNA),
         expectedResult |-> CellOr(cells, headerMap.expectedResult, DefNA),
         storyId        |-> CellOr(cells, headerMap.storyId, DefNA),
         risk           |-> CellOr(cells, headerMap.risk, DefNA)]

parseMarkdownTable(markdown) ==
    LET lines == TableLines(markdown)
    IN  IF Len(lines) < 2 THEN <<>>
        ELSE LET headerMap == HeaderMap(HeaderCells(lines[1]))
             IN  IF HeaderMissing(headerMap) THEN <<>>
                 ELSE [i \in 1..(Len(lines) - 1) |-> RowRecord(lines[i + 1], headerMap)]

----------------------------------------------------------------------------
(* _prioritizeTestCases: the merge of lines 272-277. Identifiers are texts  *)
(* compared character by character; priorities and reasonings are passed   *)
(* through unread, so they are plain strings.                               *)

\* priorityMap.has(id): new Map(entries) holds a key for every entry
PriorityMapHas(cases, id) == \E j \in 1..Len(cases) : cases[j].test_case_id = id

\* the first entry of an id, which new Map(entries) overwrites with later ones
PriorityMapGetFirst(cases, id) ==
    LET j == CHOOSE j \in 1..Len(cases) :
                 /\ cases[j].test_case_id = id
                 /\ \A k \in 1..(j - 1) : cases[k].test_case_id # id
    IN  [priority |-> cases[j].priority, reasoning |-> cases[j].reasoning]

\* priorityMap.get(id): a later entry of the same id replaces an earlier one
PriorityMapGet(cases, id) ==
    LET j == CHOOSE j \in 1..Len(cases) :
                 /\ cases[j].test_case_id = id
                 /\ \A k \in (j + 1)..Len(cases) : cases[k].test_case_id # id
    IN  [priority |-> cases[j].priority, reasoning |-> cases[j].reasoning]

DefaultPriorityInfo == [priority |-> "P2", reasoning |-> "N/A - Defaulted"]

\* { ...tc, priority: info.priority, priority_reasoning: info.reasoning }
WithPriority(tc, info) ==
    ("priority" :> info.priority) @@ ("priority_reasoning" :> info.reasoning) @@ tc

\* a merge that keeps only the records the response names
MergePrioritiesMatchedOnly(records, cases) ==
    LET matched == SelectSeq(records, LAMBDA tc : PriorityMapHas(cases, tc.id))
    IN  [i \in 1..Len(matched) |->
            WithPriority(matched[i], PriorityMapGet(cases, matched[i].id))]

\* testCases.map(tc => ...) of lines 274-277
MergePriorities(records, cases) ==
    [i \in 1..Len(records) |->
        WithPriority(records[i],
                     IF PriorityMapHas(cases, records[i].id)
                     THEN PriorityMapGet(cases, records[i].id)
                     ELSE DefaultPriorityInfo)]

----------------------------------------------------------------------------
(* generateFullTestPlan: one run of the pipeline. A run is the record of   *)
(* the function's locals, the point where it is suspended (pc) and the     *)
(* list of what it has done to the outside (log): progress callbacks and    *)
(* external calls issued and settled. settled is the outcome of the call   *)
(* that settled last.                                                      *)

\* a thrown value: an Error instance carrying a message, or a primitive
Err(msg) == [kind |-> "Error", message |-> msg]

\* lines 329-335: the detail the catch block reads from what was thrown
ErrorDetail(thrown) ==
    IF thrown.kind = "Error" THEN thrown.message
    ELSE IF thrown.kind = "object" THEN thrown.message
    ELSE "An unknown error occurred."

Progress(message, state) == [ev |-> "progress", stage |-> state, message |-> message]
Issue(stage) == [ev |-> "issue", stage |-> stage]
Settled(stage, outcome) == [ev |-> "settled", stage |-> stage, outcome |-> outcome.kind]
Failed(stage) == [ev |-> "failed", stage |-> stage]

\* a start that issues the prioritization call along with the plan call
RunStartEager ==
    [pc          |-> "awaitPlan",
     plan        |-> Null,
     parsed      |-> <<>>,
     prioritized |-> <<>>,
     result      |-> Null,
     error       |-> Null,
     settled     |-> Null,
     progress    |-> Some(Progress("Generating comprehensive test plan...",
                                   "GENERATING_PLAN")),
     log         |-> <<Progress("Generating comprehensive test plan...",
                                "GENERATING_PLAN"),
                       Issue("plan"), Issue("prio")>>]

\* lines 305-308: the first progress callback and the plan call
RunStart ==
    [pc          |-> "awaitPlan",
     plan        |-> Null,
     parsed      |-> <<>>,
     prioritized |-> <<>>,
     result      |-> Null,
     error       |-> Null,
     settled     |-> Null,
     progress    |-> Some(Progress("Generating comprehensive test plan...",
                                   "GENERATING_PLAN")),
     log         |-> <<Progress("Generating comprehensive test plan...",
                                "GENERATING_PLAN"),
                       Issue("plan")>>]

\* a catch block that issues the failed stage's call again before rejecting
RunRejectRetrying(run, stage, outcome, thrown) ==
    [run EXCEPT
        !.pc = "rejected",
        !.settled = Some(outcome),
        !.progress = Null,
        !.error = Some(Err("Failed to generate and prioritize test plan. "
                               \o ErrorDetail(thrown))),
        !.log = run.log \o <<Settled(stage, outcome), Issue(stage), Failed(stage)>>]

\* lines 327-337: the catch block rejects the run with a contextual error
RunReject(run, stage, outcome, thrown) ==
    [run EXCEPT
        !.pc = "rejected",
        !.settled = Some(outcome),
        !.progress = Null,
        !.error = Some(Err("Failed to generate and prioritize test plan. "
                               \o ErrorDetail(thrown))),
        !.log = run.log \o <<Settled(stage, outcome), Failed(stage)>>]

\* what JSON.parse throws on a body that is not JSON
JsonSyntaxError == Err("Unexpected token < in JSON at position 0")

\* line 252: both fields are strings
ValidPlan(body) == body.kind = "json" /\ body.markdown # Null /\ body.gherkin # Null

\* a plan stage that hands an empty record list on to prioritization
RunOnPlanNoEmptyCheck(run, outcome) ==
    IF outcome.kind = "reject" THEN RunReject(run, "plan", outcome, outcome.thrown)
    ELSE IF outcome.body.kind = "notJson"
    THEN RunReject(run, "plan", outcome, JsonSyntaxError)
    ELSE IF ~ValidPlan(outcome.body)
    THEN RunReject(run, "plan", outcome, Err("Invalid test plan response format."))
    ELSE [run EXCEPT
             !.pc = "awaitPrio",
             !.settled = Some(outcome),
             !.plan = Some([markdown |-> outcome.body.markdown[1],
                            gherkin |-> outcome.body.gherkin[1]]),
             !.parsed = parseMarkdownTable(outcome.body.markdown[1]),
             !.progress = Some(Progress("Prioritizing test cases...",
                                        "PRIORITIZING_PLAN")),
             !.log = run.log \o <<Settled("plan", outcome),
                                  Progress("Prioritizing test cases...",
                                           "PRIORITIZING_PLAN"),
                                  Issue("prio")>>]

\* a plan stage that takes a response lacking a field as an empty plan
RunOnPlanLenient(run, outcome) ==
    IF outcome.kind = "reject" THEN RunReject(run, "plan", outcome, outcome.thrown)
    ELSE IF outcome.body.kind = "notJson"
    THEN RunReject(run, "plan", outcome, JsonSyntaxError)
    ELSE IF ~ValidPlan(outcome.body)
    THEN [run EXCEPT
             !.pc = "awaitPrio",
             !.settled = Some(outcome),
             !.plan = Some([markdown |-> <<>>, gherkin |-> ""]),
             !.progress = Some(Progress("Prioritizing test cases...",
                                        "PRIORITIZING_PLAN")),
             !.log = run.log \o <<Settled("plan", outcome),
                                  Progress("Prioritizing test cases...",
                                           "PRIORITIZING_PLAN"),
                                  Issue("prio")>>]
    ELSE IF Len(parseMarkdownTable(outcome.body.markdown[1])) = 0
    THEN RunReject(run, "plan", outcome,
             Err("Failed to parse any test cases from the generated markdown."))
    ELSE [run EXCEPT
             !.pc = "awaitPrio",
             !.settled = Some(outcome),
             !.plan = Some([markdown |-> outcome.body.markdown[1],
                            gherkin |-> outcome.body.gherkin[1]]),
             !.parsed = parseMarkdownTable(outcome.body.markdown[1]),
             !.progress = Some(Progress("Prioritizing test cases...",
                                        "PRIORITIZING_PLAN")),
             !.log = run.log \o <<Settled("plan", outcome),
                                  Progress("Prioritizing test cases...",
                                           "PRIORITIZING_PLAN"),
                                  Issue("prio")>>]

\* lines 308-318: the plan call settles; decode (251-253), parse, and either
\* throw or fire the second progress callback and issue the prioritization call
RunOnPlan(run, outcome) ==
    IF outcome.kind = "reject" THEN RunReject(run, "plan", outcome, outcome.thrown)
    ELSE IF outcome.body.kind = "notJson"
    THEN RunReject(run, "plan", outcome, JsonSyntaxError)
    ELSE IF ~ValidPlan(outcome.body)
    THEN RunReject(run, "plan", outcome, Err("Invalid test plan response format."))
    ELSE IF Len(parseMarkdownTable(outcome.body.markdown[1])) = 0
    THEN RunReject(run, "plan", outcome,
             Err("Failed to parse any test cases from the generated markdown."))
    ELSE [run EXCEPT
             !.pc = "awaitPrio",
             !.settled = Some(outcome),
             !.plan = Some([markdown |-> outcome.body.markdown[1],
                            gherkin |-> outcome.body.gherkin[1]]),
             !.parsed = parseMarkdownTable(outcome.body.markdown[1]),
             !.progress = Some(Progress("Prioritizing test cases...",
                                        "PRIORITIZING_PLAN")),
             !.log = run.log \o <<Settled("plan", outcome),
                                  Progress("Prioritizing test cases...",
                                           "PRIORITIZING_PLAN"),
                                  Issue("prio")>>]

\* line 270
ValidPrioritization(body) == body.kind = "json" /\ body.prioritized_cases # Null

\* a traceability stage whose progress callback fires after its call is issued
RunToTraceabilityLateProgress(run, outcome, cases) ==
    [run EXCEPT
        !.pc = "awaitTrace",
        !.settled = Some(outcome),
        !.prioritized = cases,
        !.progress = Some(Progress("Creating traceability matrix...",
                                   "GENERATING_TRACEABILITY")),
        !.log = run.log \o <<Settled("prio", outcome),
                             Issue("trace"),
                             Progress("Creating traceability matrix...",
                                      "GENERATING_TRACEABILITY")>>]

\* the traceability stage entered with the given test cases (lines 320-323)
RunToTraceability(run, outcome, cases) ==
    [run EXCEPT
        !.pc = "awaitTrace",
        !.settled = Some(outcome),
        !.prioritized = cases,
        !.progress = Some(Progress("Creating traceability matrix...",
                                   "GENERATING_TRACEABILITY")),
        !.log = run.log \o <<Settled("prio", outcome),
                             Progress("Creating traceability matrix...",
                                      "GENERATING_TRACEABILITY"),
                             Issue("trace")>>]

\* a prioritization stage that, when the call fails, goes on with the parsed
\* records as they are
RunOnPrioSkipOnFailure(run, outcome) ==
    IF outcome.kind = "reject" \/ ~ValidPrioritization(outcome.body)
    THEN [RunToTraceability(run, outcome, run.parsed) EXCEPT
             !.log = run.log \o <<Settled("prio", outcome), Failed("prio"),
                                  Progress("Creating traceability matrix...",
                                           "GENERATING_TRACEABILITY"),
                                  Issue("trace")>>]
    ELSE RunToTraceability(run, outcome,
             MergePriorities(run.parsed, outcome.body.prioritized_cases[1]))

\* lines 318-323: the prioritization call settles; decode (269-270), merge
\* (272-277), fire the third progress callback, issue the traceability call
RunOnPrio(run, outcome) ==
    IF outcome.kind = "reject" THEN RunReject(run, "prio", outcome, outcome.thrown)
    ELSE IF outcome.body.kind = "notJson"
    THEN RunReject(run, "prio", outcome, JsonSyntaxError)
    ELSE IF ~ValidPrioritization(outcome.body)
    THEN RunReject(run, "prio", outcome,
             Err("Invalid prioritization response format."))
    ELSE RunToTraceability(run, outcome,
             MergePriorities(run.parsed, outcome.body.prioritized_cases[1]))

\* line 296
ValidTraceability(body) == body.kind = "json" /\ body.matrix # Null

\* lines 323-325: the traceability call settles; decode (295-297) and return
RunOnTrace(run, outcome) ==
    IF outcome.kind = "reject" THEN RunReject(run, "trace", outcome, outcome.thrown)
    ELSE IF outcome.body.kind = "notJson"
    THEN RunReject(run, "trace", outcome, JsonSyntaxError)
    ELSE IF ~ValidTraceability(outcome.body)
    THEN RunReject(run, "trace", outcome,
             Err("Invalid traceability matrix response format."))
    ELSE [run EXCEPT
             !.pc = "resolved",
             !.settled = Some(outcome),
             !.progress = Null,
             !.result = Some([testCases |-> run.prioritized,
                              gherkin |-> run.plan[1].gherkin,
                              traceabilityMatrix |-> [matrix |-> outcome.body.matrix[1]]]),
             !.log = run.log \o <<Settled("trace", outcome)>>]

----------------------------------------------------------------------------
(* The end-to-end scenario's texts                                         *)

E2EHeaderLine ==
    <<"|", " ", "T", "e", "s", "t", " ", "C", "a", "s", "e", " ", "I", "D", " ", "|",
      " ", "T", "e", "s", "t", " ", "T", "y", "p", "e", " ", "|", " ", "S", "u", "m",
      "m", "a", "r", "y", " ", "|", " ", "P", "r", "e", "c", "o", "n", "d", "i", "t",
      "i", "o", "n", "s", " ", "|", " ", "T", "e", "s", "t", " ", "S", "t", "e", "p",
      "s", " ", "|", " ", "E", "x", "p", "e", "c", "t", "e", "d", " ", "R", "e", "s",
      "u", "l", "t", " ", "|", " ", "S", "t", "o", "r", "y", " ", "I", "D", " ", "|",
      " ", "R", "i", "s", "k", " ", "T", "y", "p", "e", " ", "|">>

E2ESeparatorLine ==
    <<"|", "-", "-", "-", "|", "-", "-", "-", "|", "-", "-", "-", "|", "-", "-", "-",
      "|", "-", "-", "-", "|", "-", "-", "-", "|", "-", "-", "-", "|", "-", "-", "-",
      "|">>

E2EDataLine ==
    <<"|", " ", "T", "C", "-", "1", " ", "|", " ", "M", "a", "n", "u", "a", "l", " ",
      "|", " ", "L", "o", "g", "i", "n", " ", "w", "o", "r", "k", "s", " ", "|", " ",
      "N", "o", "n", "e", " ", "|", " ", "O", "p", "e", "n", " ", "a", "p", "p", " ",
      Arrow, " ", "E", "n", "t", "e", "r", " ", "c", "r", "e", "d", "s", " ", Arrow,
      " ", "C", "l", "i", "c", "k", " ", "l", "o", "g", "i", "n", " ", "|", " ", "R",
      "e", "d", "i", "r", "e", "c", "t", " ", "t", "o", " ", "d", "a", "s", "h", "b",
      "o", "a", "r", "d", " ", "|", " ", "U", "S", "-", "1", "0", "1", " ", "|", " ",
      "L", "o", "w", " ", "|">>

TextTC1 ==
    <<"T", "C", "-", "1">>

TextManual ==
    <<"M", "a", "n", "u", "a", "l">>

TextLoginWorks ==
    <<"L", "o", "g", "i", "n", " ", "w", "o", "r", "k", "s">>

TextSteps ==
    <<"O", "p", "e", "n", " ", "a", "p", "p", " ", Arrow, " ", "E", "n", "t", "e", "r",
      " ", "c", "r", "e", "d", "s", " ", Arrow, " ", "C", "l", "i", "c", "k", " ", "l",
      "o", "g", "i", "n">>

TextRedirect ==
    <<"R", "e", "d", "i", "r", "e", "c", "t", " ", "t", "o", " ", "d", "a", "s", "h",
      "b", "o", "a", "r", "d">>

TextUS101 ==
    <<"U", "S", "-", "1", "0", "1">>

TextLow ==
    <<"L", "o", "w">>

E2EMarkdown ==
    E2EHeaderLine \o <<"\n">> \o E2ESeparatorLine \o <<"\n">> \o E2EDataLine

E2ERecord ==
    [id |-> TextTC1, type |-> TextManual, summary |-> TextLoginWorks,
     preconditions |-> DefNone, steps |-> TextSteps, expectedResult |-> TextRedirect,
     storyId |-> TextUS101, risk |-> TextLow]

E2EPrioritizedCases ==
    <<[test_case_id |-> TextTC1, priority |-> "P1", reasoning |-> "Auth is critical"]>>

E2EMatrix == <<[story_id |-> TextUS101, test_case_ids |-> <<TextTC1>>]>>

----------------------------------------------------------------------------
(* Tables handed to the parser: a markdown text written from a logical     *)
(* table (a header layout, a separator row, data rows)                     *)

MaxRows == 2

Columns ==
    <<"id", "type", "summary", "preconditions", "steps", "expectedResult",
      "storyId", "risk">>

ColumnSet == {Columns[i] : i \in 1..Len(Columns)}

HeaderOf(col) ==
    CASE col = "id" -> HdrTestCaseID
      [] col = "type" -> HdrTestType
      [] col = "summary" -> HdrSummary
      [] col = "preconditions" -> HdrPreconditions
      [] col = "steps" -> HdrTestSteps
      [] col = "expectedResult" -> HdrExpectedResult
      [] col = "storyId" -> HdrStoryID
      [] col = "risk" -> HdrRiskType

DefaultOf(col) ==
    CASE col = "summary" -> DefNoSummary
      [] col = "preconditions" -> DefNone
      [] OTHER -> DefNA

\* header orders: the documented one, its reverse, and "Story ID" moved last
Reverse(s) == [i \in 1..Len(s) |-> s[Len(s) + 1 - i]]

Layouts ==
    {Columns, Reverse(Columns),
     <<"id", "type", "summary", "preconditions", "steps", "expectedResult",
       "risk", "storyId">>}

\* number of dashes in each cell of the separator row; 0: no separator row
SepKinds == {0, 2, 3, 4}

\* cell texts of a filled row
FilledRow(n) ==
    [id |-> <<"T", n>>, type |-> <<"M">>, summary |-> <<"a", " ", "b">>,
     preconditions |-> <<"p">>, steps |-> <<"s", Arrow, "t">>,
     expectedResult |-> <<"e">>, storyId |-> <<"U", n>>, risk |-> <<"L">>]

\* data rows: filled, one cell blank, or a cell holding the text "---"
DataRows ==
    {FilledRow("1"), FilledRow("2")}
        \cup {[FilledRow("1") EXCEPT ![c] = <<>>] : c \in ColumnSet}
        \cup {[FilledRow("1") EXCEPT !.summary = Dashes3]}

RECURSIVE Repeat(_, _)
Repeat(c, n) == IF n = 0 THEN <<>> ELSE <<c>> \o Repeat(c, n - 1)

\* "| c1 | c2 | ... |"
RECURSIVE PipeLine(_)
PipeLine(cells) ==
    IF cells = <<>> THEN Pipe
    ELSE <<"|", " ">> \o Head(cells) \o <<" ">> \o PipeLine(Tail(cells))

RECURSIVE JoinLines(_)
JoinLines(ls) ==
    IF ls = <<>> THEN <<>> ELSE Head(ls) \o <<"\n">> \o JoinLines(Tail(ls))

DropAt(s, k) ==
    IF k = 0 THEN s ELSE SubSeq(s, 1, k - 1) \o SubSeq(s, k + 1, Len(s))

HeaderLine(layout, drop) ==
    PipeLine(DropAt([i \in 1..Len(layout) |-> HeaderOf(layout[i])], drop))

SepLines(layout, sep) ==
    IF sep = 0 THEN <<>>
    ELSE <<PipeLine([i \in 1..Len(layout) |-> Repeat("-", sep)])>>

RowLine(layout, row) == PipeLine([i \in 1..Len(layout) |-> row[layout[i]]])

\* the text the plan call returns: a sentence, an empty line, then the table
Markdown(layout, drop, sep, rows) ==
    JoinLines(<<<<"P", "l", "a", "n", ":">>, <<>>, <<" ">> \o HeaderLine(layout, drop)>>
              \o SepLines(layout, sep)
              \o [i \in 1..Len(rows) |-> RowLine(layout, rows[i])])

TableMarkdown == Markdown(tblLayout, tblDrop, tblSep, tblRows)

ParseInit ==
    /\ tblLayout \in Layouts
    /\ tblDrop \in 0..Len(Columns)
    /\ tblDrop # 0 => tblLayout = Columns
    /\ tblSep \in SepKinds
    /\ tblRows = <<>>
    /\ parseOut = <<>>
    /\ parsePc = "input"

\* the generated text gains one more data row
WriteRow ==
    /\ parsePc = "input"
    /\ Len(tblRows) < MaxRows
    /\ \E r \in DataRows : tblRows' = Append(tblRows, r)
    /\ UNCHANGED <<tblLayout, tblDrop, tblSep, parseOut, parsePc, appVars, prioVars, fileVars>>

\* parseMarkdownTable(plan.markdown)
Parse ==
    /\ parsePc = "input"
    /\ parseOut' = parseMarkdownTable(TableMarkdown)
    /\ parsePc' = "parsed"
    /\ UNCHANGED <<tblLayout, tblDrop, tblSep, tblRows, appVars, prioVars, fileVars>>

ParseNext == WriteRow \/ Parse

----------------------------------------------------------------------------
(* Inputs of the prioritization merge: parsed records and a decoded        *)
(* response that may omit identifiers, repeat them or name unknown ones    *)

MaxCases == 2
MaxEntries == 3

\* parsed records: two filled rows and a row whose id cell defaulted to "N/A"
ParsedChoices ==
    {FilledRow("1"), FilledRow("2"), [FilledRow("1") EXCEPT !.id = DefNA]}

\* response entries: ids of the records and an id no record has
EntryChoices ==
    [test_case_id : {<<"T", "1">>, <<"T", "2">>, <<"T", "9">>},
     priority     : {"P0", "P1"},
     reasoning    : {"Auth is critical"}]
        \cup
    [test_case_id : {<<"T", "1">>},
     priority     : {"P3"},
     reasoning    : {"Cosmetic"}]

PrioInit ==
    /\ prioIn = <<>>
    /\ prioResp = <<>>
    /\ prioOut = <<>>
    /\ prioPc = "input"
    /\ editableTestCases = Null

\* one more parsed record reaches the prioritization stage
AddParsedCase ==
    /\ prioPc = "input"
    /\ prioResp = <<>>
    /\ Len(prioIn) < MaxCases
    /\ \E tc \in ParsedChoices : prioIn' = Append(prioIn, tc)
    /\ UNCHANGED <<prioResp, prioOut, prioPc, editableTestCases, appVars, parseVars, fileVars>>

\* the service's response holds one more entry
AddResponseEntry ==
    /\ prioPc = "input"
    /\ prioIn # <<>>
    /\ Len(prioResp) < MaxEntries
    /\ \E e \in EntryChoices : prioResp' = Append(prioResp, e)
    /\ UNCHANGED <<prioIn, prioOut, prioPc, editableTestCases, appVars, parseVars, fileVars>>

\* the response arrives and lines 272-277 run; generateFullTestPlan never
\* calls _prioritizeTestCases with an empty list (line 312)
Merge ==
    /\ prioPc = "input"
    /\ prioIn # <<>>
    /\ prioOut' = MergePriorities(prioIn, prioResp)
    /\ prioPc' = "merged"
    /\ UNCHANGED <<prioIn, prioResp, editableTestCases, appVars, parseVars, fileVars>>

PrioNext == AddParsedCase \/ AddResponseEntry \/ Merge

\* TestPlanDisplay (part_003) lines 47-51:
\* prevCases.map(tc => tc.id === updatedCase.id ? updatedCase : tc)
handleUpdateTestCase(prevCases, updatedCase) ==
    [i \in 1..Len(prevCases) |->
        IF prevCases[i].id = updatedCase.id THEN updatedCase ELSE prevCases[i]]

\* TestPlanDisplay is mounted with the prioritized list (part_003 lines 41-45)
ShowPlan ==
    /\ prioPc = "merged"
    /\ editableTestCases = Null
    /\ editableTestCases' = Some(prioOut)
    /\ UNCHANGED <<prioIn, prioResp, prioOut, prioPc, appVars, parseVars, fileVars>>

\* the user edits a field of the card at position i, starting from the
\* record the card shows, and saves (TestCaseCard.tsx lines 91-98: the card
\* hands its edited copy of the record to onUpdate)
HandleUpdateTestCase ==
    /\ editableTestCases # Null
    /\ \E i \in 1..Len(editableTestCases[1]) : \E field \in {"summary", "steps"} :
         LET updatedCase == [editableTestCases[1][i] EXCEPT ![field] = <<"e">>]
         IN  editableTestCases' =
                 Some(handleUpdateTestCase(editableTestCases[1], updatedCase))
    /\ UNCHANGED <<prioIn, prioResp, prioOut, prioPc, appVars, parseVars, fileVars>>

----------------------------------------------------------------------------
(* buildMultimodalPrompt and the inputs the user can submit                *)

PrdIntro ==
    <<"H", "e", "r", "e", " ", "i", "s", " ", "t", "h", "e", " ", "P", "R", "D", " ",
      "t", "o", " ", "a", "n", "a", "l", "y", "z", "e", ":", "\n", "\n", "-", "-", "-",
      "\n", "\n">>

FigmaIntro ==
    <<"T", "h", "e", " ", "f", "o", "l", "l", "o", "w", "i", "n", "g", " ", "F", "i",
      "g", "m", "a", " ", "d", "e", "s", "i", "g", "n", " ", "i", "s", " ", "a", "l",
      "s", "o", " ", "r", "e", "l", "e", "v", "a", "n", "t", ":", " ">>

ImageIntro ==
    <<"A", "n", "a", "l", "y", "z", "e", " ", "t", "h", "e", " ", "f", "o", "l", "l",
      "o", "w", "i", "n", "g", " ", "U", "I", " ", "m", "o", "c", "k", "u", "p", "/",
      "s", "c", "r", "e", "e", "n", "s", "h", "o", "t", " ", "n", "a", "m", "e", "d",
      " ", "\"">>

VideoIntro ==
    <<"A", "n", "a", "l", "y", "z", "e", " ", "t", "h", "e", " ", "f", "o", "l", "l",
      "o", "w", "i", "n", "g", " ", "k", "e", "y", "f", "r", "a", "m", "e", "s", " ",
      "e", "x", "t", "r", "a", "c", "t", "e", "d", " ", "f", "r", "o", "m", " ", "t",
      "h", "e", " ", "v", "i", "d", "e", "o", " ", "n", "a", "m", "e", "d", " ", "\"">>

IntroEnd ==
    <<"\"", ":">>

ImagePrefix ==
    <<"i", "m", "a", "g", "e", "/">>

VideoPrefix ==
    <<"v", "i", "d", "e", "o", "/">>

JpegMime ==
    <<"i", "m", "a", "g", "e", "/", "j", "p", "e", "g">>

TextPRD ==
    <<"P", "R", "D">>

TextClipMp4 ==
    <<"c", "l", "i", "p", ".", "m", "p", "4">>

TextVideoMp4 ==
    <<"v", "i", "d", "e", "o", "/", "m", "p", "4">>

\* lines 168-177: one text part holding the PRD and the Figma sentences
TextPrompt(inputs) ==
    (IF inputs.prdText # <<>>
     THEN PrdIntro \o inputs.prdText \o <<"\n", "\n">> ELSE <<>>)
        \o (IF inputs.figmaUrl # <<>>
            THEN FigmaIntro \o inputs.figmaUrl \o <<"\n", "\n">> ELSE <<>>)

\* dataUrl.split(',')[1]; undefined (no comma) is <<>> wrapped as null
AfterComma(dataUrl) ==
    IF Len(Split(dataUrl, ",")) >= 2 THEN Some(Split(dataUrl, ",")[2]) ELSE Null

\* lines 179-199: the parts of one attachment
FileParts(file) ==
    IF StartsWith(file.type, ImagePrefix)
    THEN <<[text |-> ImageIntro \o file.name \o IntroEnd],
           [inlineData |-> [mimeType |-> file.type, data |-> AfterComma(file.dataUrl)]]>>
    ELSE IF StartsWith(file.type, VideoPrefix) /\ file.frames # Null
                /\ Len(file.frames[1]) > 0
    THEN <<[text |-> VideoIntro \o file.name \o IntroEnd]>>
             \o [i \in 1..Len(file.frames[1]) |->
                    [inlineData |-> [mimeType |-> JpegMime,
                                     data |-> AfterComma(file.frames[1][i])]]]
    ELSE <<>>

RECURSIVE AllFileParts(_)
AllFileParts(fileList) ==
    IF fileList = <<>> THEN <<>>
    ELSE FileParts(Head(fileList)) \o AllFileParts(Tail(fileList))

\* additionalContext is null or a text
buildMultimodalPrompt(inputs, additionalContext) ==
    (IF TextPrompt(inputs) # <<>> THEN <<[text |-> TextPrompt(inputs)]>> ELSE <<>>)
        \o AllFileParts(inputs.files)
        \o (IF additionalContext # Null /\ additionalContext[1] # <<>>
            THEN <<[text |-> additionalContext[1]]>> ELSE <<>>)

\* what the input form can hand to handleAnalyze: nothing at all, a PRD
\* text, blanks only, a video whose frame list came out empty, a bundle
\* with text, design URL, a read image and a video with one frame, and an
\* image whose read failed (PRDInput.tsx 58-62 leaves its dataUrl '' and
\* handleAnalyzeClick, 136-138, passes the whole list on)
InputChoices ==
    {[prdText |-> <<>>, files |-> <<>>, figmaUrl |-> <<>>],
     [prdText |-> TextPRD, files |-> <<>>, figmaUrl |-> <<>>],
     [prdText |-> <<" ">>, files |-> <<>>, figmaUrl |-> <<" ">>],
     [prdText |-> <<>>, figmaUrl |-> <<>>,
      files |-> <<[name |-> TextClipMp4, type |-> TextVideoMp4, dataUrl |-> <<>>,
                   frames |-> Some(<<>>)]>>],
     [prdText |-> TextPRD, figmaUrl |-> <<"u", "r", "l">>,
      files |-> <<[name |-> <<"a">>, type |-> ImagePrefix \o <<"p", "n", "g">>,
                   dataUrl |-> <<"d", ",", "A">>, frames |-> Null],
                  [name |-> TextClipMp4, type |-> TextVideoMp4, dataUrl |-> <<>>,
                   frames |-> Some(<< <<"d", ",", "B">> >>)]>>],
     [prdText |-> <<>>, figmaUrl |-> <<>>,
      files |-> <<[name |-> <<"a">>, type |-> ImagePrefix \o <<"p", "n", "g">>,
                   dataUrl |-> <<>>, frames |-> Null]>>]}

----------------------------------------------------------------------------
(* What the external service can answer                                    *)

\* values a failed call rejects with: an Error, or a thrown string (message
\* is then the text of the string, which is not a property the code can read)
ThrownChoices == {Err("Network down"), [kind |-> "primitive", message |-> "quota exceeded"]}

Rejections == {[kind |-> "reject", thrown |-> t] : t \in ThrownChoices}

Resolved(body) == [kind |-> "resolve", body |-> body]

NotJson == [kind |-> "notJson"]

FindingChoices ==
    {<<>>, <<[category |-> "Ambiguity", description |-> "Lockout rule is not stated",
              source_story_id |-> "US-101"]>>}

AnalysisOutcomes ==
    Rejections
        \cup {Resolved(NotJson), Resolved([kind |-> "json", findings |-> Null])}
        \cup {Resolved([kind |-> "json", findings |-> Some(f)]) : f \in FindingChoices}

\* plan texts: the end-to-end table, a table whose header lacks
\* "Test Case ID", and an empty text
PlanMarkdowns == {E2EMarkdown, Markdown(Columns, 1, 3, <<FilledRow("1")>>), <<>>}

GherkinChoices == {"Feature: Login", ""}

PlanOutcomes ==
    Rejections
        \cup {Resolved(NotJson),
              Resolved([kind |-> "json", markdown |-> Null, gherkin |-> Some("Feature: Login")]),
              Resolved([kind |-> "json", markdown |-> Some(E2EMarkdown), gherkin |-> Null])}
        \cup {Resolved([kind |-> "json", markdown |-> Some(m), gherkin |-> Some(g)]) :
                  m \in PlanMarkdowns, g \in GherkinChoices}

PrioritizedCasesChoices == {<<>>, E2EPrioritizedCases}

PrioOutcomes ==
    Rejections
        \cup {Resolved(NotJson), Resolved([kind |-> "json", prioritized_cases |-> Null])}
        \cup {Resolved([kind |-> "json", prioritized_cases |-> Some(c)]) :
                  c \in PrioritizedCasesChoices}

\* matrices: the end-to-end one, and one naming a story no test case has
MatrixChoices ==
    {E2EMatrix,
     <<[story_id |-> <<"U", "S", "-", "9">>, test_case_ids |-> <<TextTC1>>]>>}

TraceOutcomes ==
    Rejections
        \cup {Resolved(NotJson), Resolved([kind |-> "json", matrix |-> Null])}
        \cup {Resolved([kind |-> "json", matrix |-> Some(m)]) : m \in MatrixChoices}

\* generateQaDocumentation returns response.text undecoded
DocsOutcomes == Rejections \cup {Resolved("# QA Documentation"), Resolved("")}

----------------------------------------------------------------------------
(* App.tsx: the caller's state and its handlers. A handler runs to its     *)
(* first await in one step; the continuation after an await runs, with the *)
(* promise callbacks that follow it, in one step when the call settles.    *)

MaxTasks == 2

TaskSlots == 1..MaxTasks

NoRun ==
    [pc |-> "none", plan |-> Null, parsed |-> <<>>, prioritized |-> <<>>,
     result |-> Null, error |-> Null, settled |-> Null, progress |-> Null,
     log |-> <<>>]

NoTask == [op |-> "none", pc |-> "done", run |-> NoRun]

Awaiting(k, op) == tasks[k].op = op /\ tasks[k].pc = "await"

FreeSlots == {k \in TaskSlots : tasks[k].pc = "done"}

\* a handler's single external call (analyzeInputs line 213,
\* generateQaDocumentation line 344): issued, and later settled
CallIssued(stage) == [NoRun EXCEPT !.pc = "awaitCall", !.log = <<Issue(stage)>>]

CallSettled(run, stage, outcome) ==
    [run EXCEPT !.pc = "settled",
                !.settled = Some(outcome),
                !.log = run.log \o <<Settled(stage, outcome)>>]

\* an invocation that is over stays in its slot, so that its outcome can be
\* read, until the next step of the application drops it
LiveTasks == [k \in TaskSlots |-> IF tasks[k].pc = "done" THEN NoTask ELSE tasks[k]]

\* JavaScript truthiness of a nullable string
TruthyText(v) == v # Null /\ v[1] # ""

\* renderStepContent, lines 208-210
ShowsLoading ==
    isLoading /\ step \in {"PRD_INPUT", "ANALYSIS_COMPLETE", "PLAN_GENERATED"}

\* PRDInput is rendered and its button is enabled (PRDInput.tsx line 244)
CanAnalyze == step = "PRD_INPUT" /\ ~isLoading

\* lines 215-229 and AnalysisResults.tsx line 44
AnalysisViewShown == step = "ANALYSIS_COMPLETE" /\ ~ShowsLoading /\ analysis # Null
CanGeneratePlan == AnalysisViewShown /\ ~isLoading
CanEnhancePrd == AnalysisViewShown

\* lines 230-231, 440-445
CanContinueToPlan == step = "ENHANCE_PRD" /\ TruthyText(enhancedPrd)

\* lines 453-470
PlanViewShown ==
    /\ step = "PLAN_GENERATED" /\ ~ShowsLoading
    /\ testCases # Null /\ TruthyText(gherkin) /\ traceabilityMatrix # Null

\* lines 475-487
DocsViewShown == step = "QA_DOCS_GENERATED" /\ TruthyText(qaDocs)

AppInit ==
    /\ step = "PRD_INPUT"
    /\ inputData = Null
    /\ analysis = Null
    /\ testCases = Null
    /\ gherkin = Null
    /\ traceabilityMatrix = Null
    /\ qaDocs = Null
    /\ enhancedPrd = Null
    /\ isLoading = FALSE
    /\ error = Null
    /\ progressMessage = ""
    /\ isResetModalOpen = FALSE
    /\ tasks = [k \in TaskSlots |-> NoTask]

\* a validation that lets a bundle without a design URL through
NoInputUnlessUrl(input) ==
    Trim(input.prdText) = <<>> /\ Len(input.files) = 0 /\ Trim(input.figmaUrl) # <<>>

\* line 96
NoInput(input) ==
    Trim(input.prdText) = <<>> /\ Len(input.files) = 0 /\ Trim(input.figmaUrl) = <<>>

\* handleAnalyze (lines 95-122) up to the await inside analyzeInputs (line 213);
\* with no parts analyzeInputs throws before the call (line 211) and the
\* handler's catch and finally follow at once
handleAnalyze(currentInputData) ==
    /\ IF NoInput(currentInputData)
       THEN /\ error' = Some("At least one input (PRD, File, or Figma URL) is required.")
            /\ UNCHANGED <<step, inputData, analysis, testCases, gherkin,
                           traceabilityMatrix, qaDocs, isLoading, progressMessage>>
            /\ tasks' = LiveTasks
       ELSE /\ inputData' = Some(currentInputData)
            /\ analysis' = Null
            /\ testCases' = Null
            /\ gherkin' = Null
            /\ traceabilityMatrix' = Null
            /\ qaDocs' = Null
            /\ IF Len(buildMultimodalPrompt(currentInputData, Null)) = 0
               THEN /\ error' = Some("Failed to get analysis from Gemini API. "
                                         \o "No content to analyze.")
                    /\ step' = "PRD_INPUT"
                    /\ isLoading' = FALSE
                    /\ progressMessage' = ""
                    /\ tasks' = LiveTasks
               ELSE /\ FreeSlots # {}
                    /\ error' = Null
                    /\ isLoading' = TRUE
                    /\ progressMessage' = "Analyzing inputs..."
                    /\ tasks' = [LiveTasks EXCEPT ![FirstOf(FreeSlots)] =
                                    [op |-> "analyze", pc |-> "await",
                                     run |-> CallIssued("analysis")]]
                    /\ UNCHANGED step
    /\ UNCHANGED <<enhancedPrd, isResetModalOpen, parseVars, prioVars, fileVars>>

\* the Analyze button of PRDInput, with the bundle the user has entered
HandleAnalyze ==
    /\ CanAnalyze
    /\ \E input \in InputChoices : handleAnalyze(input)

\* the analysis call settles: analyzeInputs lines 223-229, handleAnalyze 112-121
AnalyzeSettle ==
    \E k \in TaskSlots : \E outcome \in AnalysisOutcomes :
        /\ Awaiting(k, "analyze")
        /\ IF outcome.kind = "resolve" /\ outcome.body.kind = "json"
                /\ outcome.body.findings # Null
           THEN /\ analysis' = Some([findings |-> outcome.body.findings[1]])
                /\ step' = "ANALYSIS_COMPLETE"
                /\ UNCHANGED error
           ELSE /\ error' = Some("Failed to get analysis from Gemini API. "
                     \o (IF outcome.kind = "reject"
                         THEN (IF outcome.thrown.kind = "Error"
                               THEN outcome.thrown.message ELSE "")
                         ELSE IF outcome.body.kind = "notJson"
                         THEN JsonSyntaxError.message
                         ELSE "Invalid analysis response format."))
                /\ step' = "PRD_INPUT"
                /\ UNCHANGED analysis
        /\ isLoading' = FALSE
        /\ progressMessage' = ""
        /\ tasks' = [LiveTasks EXCEPT
                        ![k].pc = "done",
                        ![k].run = CallSettled(tasks[k].run, "analysis", outcome)]
        /\ UNCHANGED <<inputData, testCases, gherkin, traceabilityMatrix, qaDocs,
                       enhancedPrd, isResetModalOpen, parseVars, prioVars, fileVars>>

\* handleGenerateFullPlan (lines 124-160) up to the first await of
\* generateFullTestPlan: the progress callback of line 307 has run
HandleGenerateFullPlan ==
    /\ CanGeneratePlan
    /\ IF inputData = Null
       THEN /\ error' = Some("Input data is missing. Please go back to the first step.")
            /\ UNCHANGED <<step, testCases, gherkin, traceabilityMatrix, isLoading,
                           progressMessage>>
            /\ tasks' = LiveTasks
       ELSE /\ FreeSlots # {}
            /\ isLoading' = TRUE
            /\ error' = Null
            /\ testCases' = Null
            /\ gherkin' = Null
            /\ traceabilityMatrix' = Null
            /\ progressMessage' = RunStart.progress[1].message
            /\ step' = RunStart.progress[1].stage
            /\ tasks' = [LiveTasks EXCEPT ![FirstOf(FreeSlots)] =
                            [op |-> "plan", pc |-> "await", run |-> RunStart]]
    /\ UNCHANGED <<inputData, analysis, qaDocs, enhancedPrd, isResetModalOpen,
                   parseVars, prioVars, fileVars>>

\* a handler that stores the traceability matrix of a resolved run in a
\* later step than its test cases and Gherkin text
PlanHandlerStepNoMatrix(k, run) ==
    /\ CASE run.pc = "resolved" ->
              /\ testCases' = Some(run.result[1].testCases)
              /\ gherkin' = Some(run.result[1].gherkin)
              /\ step' = "PLAN_GENERATED"
              /\ isLoading' = FALSE
              /\ progressMessage' = ""
              /\ UNCHANGED <<error, traceabilityMatrix>>
         [] run.pc = "rejected" ->
              /\ error' = Some(run.error[1].message)
              /\ step' = "ANALYSIS_COMPLETE"
              /\ isLoading' = FALSE
              /\ progressMessage' = ""
              /\ UNCHANGED <<testCases, gherkin, traceabilityMatrix>>
         [] OTHER ->
              /\ progressMessage' = run.progress[1].message
              /\ step' = run.progress[1].stage
              /\ UNCHANGED <<testCases, gherkin, traceabilityMatrix, isLoading, error>>
    /\ tasks' = [LiveTasks EXCEPT
                    ![k].run = run,
                    ![k].pc = IF run.pc \in {"resolved", "rejected"} THEN "done" ELSE "await"]
    /\ UNCHANGED <<inputData, analysis, qaDocs, enhancedPrd, isResetModalOpen,
                   parseVars, prioVars, fileVars>>

\* what handleGenerateFullPlan does with a run that has moved on: the
\* progress callback (lines 143-146), the success path (148-151), or the
\* catch (152-155), each of the last two with the finally (156-158)
PlanHandlerStep(k, run) ==
    /\ CASE run.pc = "resolved" ->
              /\ testCases' = Some(run.result[1].testCases)
              /\ gherkin' = Some(run.result[1].gherkin)
              /\ traceabilityMatrix' = Some(run.result[1].traceabilityMatrix)
              /\ step' = "PLAN_GENERATED"
              /\ isLoading' = FALSE
              /\ progressMessage' = ""
              /\ UNCHANGED error
         [] run.pc = "rejected" ->
              /\ error' = Some(run.error[1].message)
              /\ step' = "ANALYSIS_COMPLETE"
              /\ isLoading' = FALSE
              /\ progressMessage' = ""
              /\ UNCHANGED <<testCases, gherkin, traceabilityMatrix>>
         [] OTHER ->
              /\ progressMessage' = run.progress[1].message
              /\ step' = run.progress[1].stage
              /\ UNCHANGED <<testCases, gherkin, traceabilityMatrix, isLoading, error>>
    /\ tasks' = [LiveTasks EXCEPT
                    ![k].run = run,
                    ![k].pc = IF run.pc \in {"resolved", "rejected"} THEN "done" ELSE "await"]
    /\ UNCHANGED <<inputData, analysis, qaDocs, enhancedPrd, isResetModalOpen,
                   parseVars, prioVars, fileVars>>

\* the plan call settles
PlanSettle ==
    \E k \in TaskSlots : \E outcome \in PlanOutcomes :
        /\ Awaiting(k, "plan") /\ tasks[k].run.pc = "awaitPlan"
        /\ PlanHandlerStep(k, RunOnPlan(tasks[k].run, outcome))

\* the prioritization call settles
PrioSettle ==
    \E k \in TaskSlots : \E outcome \in PrioOutcomes :
        /\ Awaiting(k, "plan") /\ tasks[k].run.pc = "awaitPrio"
        /\ PlanHandlerStep(k, RunOnPrio(tasks[k].run, outcome))

\* the traceability call settles
TraceSettle ==
    \E k \in TaskSlots : \E outcome \in TraceOutcomes :
        /\ Awaiting(k, "plan") /\ tasks[k].run.pc = "awaitTrace"
        /\ PlanHandlerStep(k, RunOnTrace(tasks[k].run, outcome))

\* handleEnhancePrd (lines 72-93) up to the await of line 68
HandleEnhancePrd ==
    /\ CanEnhancePrd
    /\ IF inputData = Null
       THEN /\ error' = Some("Input data is missing.")
            /\ UNCHANGED <<step, isLoading, progressMessage>>
            /\ tasks' = LiveTasks
       ELSE /\ FreeSlots # {}
            /\ isLoading' = TRUE
            /\ error' = Null
            /\ progressMessage' = "Enhancing PRD..."
            /\ step' = "ENHANCE_PRD"
            /\ tasks' = [LiveTasks EXCEPT ![FirstOf(FreeSlots)] =
                            [op |-> "enhance", pc |-> "await",
                                       run |-> CallIssued("docs")]]
    /\ UNCHANGED <<inputData, analysis, testCases, gherkin, traceabilityMatrix, qaDocs,
                   enhancedPrd, isResetModalOpen, parseVars, prioVars, fileVars>>

\* the enhancement's documentation call settles (lines 83-91)
EnhanceSettle ==
    \E k \in TaskSlots : \E outcome \in DocsOutcomes :
        /\ Awaiting(k, "enhance")
        /\ IF outcome.kind = "resolve"
           THEN /\ enhancedPrd' = Some(outcome.body)
                /\ step' = "ENHANCE_PRD"
                /\ UNCHANGED error
           ELSE /\ error' = Some("Failed to enhance PRD.")
                /\ step' = "ANALYSIS_COMPLETE"
                /\ UNCHANGED enhancedPrd
        /\ isLoading' = FALSE
        /\ progressMessage' = ""
        /\ tasks' = [LiveTasks EXCEPT
                        ![k].pc = "done",
                        ![k].run = CallSettled(tasks[k].run, "docs", outcome)]
        /\ UNCHANGED <<inputData, analysis, testCases, gherkin, traceabilityMatrix,
                       qaDocs, isResetModalOpen, parseVars, prioVars, fileVars>>

\* "Continue to Generate Plan" (lines 440-445)
ContinueToGeneratePlan ==
    /\ CanContinueToPlan
    /\ step' = "GENERATING_PLAN"
    /\ UNCHANGED <<inputData, analysis, testCases, gherkin, traceabilityMatrix, qaDocs,
                   enhancedPrd, isLoading, error, progressMessage, isResetModalOpen,
                   parseVars, prioVars, fileVars>>
    /\ tasks' = LiveTasks

\* handleGenerateQaDocs (lines 162-185) up to the await of line 174
HandleGenerateQaDocs ==
    /\ PlanViewShown
    /\ IF inputData = Null
       THEN /\ error' = Some("Input data is missing.")
            /\ UNCHANGED <<step, qaDocs, isLoading, progressMessage>>
            /\ tasks' = LiveTasks
       ELSE /\ FreeSlots # {}
            /\ isLoading' = TRUE
            /\ error' = Null
            /\ qaDocs' = Null
            /\ progressMessage' = "Generating comprehensive QA documentation..."
            /\ step' = "GENERATING_QA_DOCS"
            /\ tasks' = [LiveTasks EXCEPT ![FirstOf(FreeSlots)] =
                            [op |-> "docs", pc |-> "await",
                                       run |-> CallIssued("docs")]]
    /\ UNCHANGED <<inputData, analysis, testCases, gherkin, traceabilityMatrix,
                   enhancedPrd, isResetModalOpen, parseVars, prioVars, fileVars>>

\* the documentation call settles (generateQaDocumentation 352-357, handler 175-184)
DocsSettle ==
    \E k \in TaskSlots : \E outcome \in DocsOutcomes :
        /\ Awaiting(k, "docs")
        /\ IF outcome.kind = "resolve"
           THEN /\ qaDocs' = Some(outcome.body)
                /\ step' = "QA_DOCS_GENERATED"
                /\ UNCHANGED error
           ELSE /\ error' = Some("Failed to generate QA documentation from Gemini API. "
                     \o (IF outcome.thrown.kind = "Error"
                         THEN outcome.thrown.message ELSE ""))
                /\ step' = "PLAN_GENERATED"
                /\ UNCHANGED qaDocs
        /\ isLoading' = FALSE
        /\ progressMessage' = ""
        /\ tasks' = [LiveTasks EXCEPT
                        ![k].pc = "done",
                        ![k].run = CallSettled(tasks[k].run, "docs", outcome)]
        /\ UNCHANGED <<inputData, analysis, testCases, gherkin, traceabilityMatrix,
                       enhancedPrd, isResetModalOpen, parseVars, prioVars, fileVars>>

\* "Start Over" (lines 462, 483)
OpenResetModal ==
    /\ PlanViewShown \/ DocsViewShown
    /\ ~isResetModalOpen
    /\ isResetModalOpen' = TRUE
    /\ UNCHANGED <<step, inputData, analysis, testCases, gherkin, traceabilityMatrix,
                   qaDocs, enhancedPrd, isLoading, error, progressMessage, parseVars,
                   prioVars, fileVars>>
    /\ tasks' = LiveTasks

\* Cancel, the close button, the backdrop, Escape (lines 525, 535; Modal.tsx)
CloseResetModal ==
    /\ isResetModalOpen
    /\ isResetModalOpen' = FALSE
    /\ UNCHANGED <<step, inputData, analysis, testCases, gherkin, traceabilityMatrix,
                   qaDocs, enhancedPrd, isLoading, error, progressMessage, parseVars,
                   prioVars, fileVars>>
    /\ tasks' = LiveTasks

\* handleReset (lines 187-198); outstanding calls are left running
HandleReset ==
    /\ isResetModalOpen
    /\ step' = "PRD_INPUT"
    /\ inputData' = Null
    /\ analysis' = Null
    /\ testCases' = Null
    /\ gherkin' = Null
    /\ traceabilityMatrix' = Null
    /\ qaDocs' = Null
    /\ error' = Null
    /\ isLoading' = FALSE
    /\ isResetModalOpen' = FALSE
    /\ UNCHANGED <<enhancedPrd, progressMessage, parseVars, prioVars, fileVars>>
    /\ tasks' = LiveTasks

----------------------------------------------------------------------------
(* PRDInput.tsx: the attachment list and the preprocessing of each file.   *)
(* A tempId `${file.name}-${Date.now()}` is the pair of the name and the   *)
(* time: the text after the last "-" is the time, so two tempIds are equal *)
(* exactly when both are. updates counts how often a processFile           *)
(* completion has rewritten a record.                                      *)

MaxBatch == 2
MaxClock == 1

\* the File objects a drop, a selection or a paste can hold
FileChoices ==
    {[name |-> "a.png", type |-> <<"i", "m", "a", "g", "e", "/", "p", "n", "g">>],
     [name |-> "v.mp4", type |-> TextVideoMp4],
     [name |-> "n.txt", type |-> <<"t", "e", "x", "t", "/", "p", "l", "a", "i", "n">>]}

Batches == UNION {[1..n -> FileChoices] : n \in 1..MaxBatch}

\* line 68
IsMedia(file) ==
    StartsWith(file.type, ImagePrefix) \/ StartsWith(file.type, VideoPrefix)

\* lines 51, 54, 61: prev.map(f => f.tempId === tempId ? {...f, ...} : f)
Updated(list, tempId, field, value) ==
    [i \in 1..Len(list) |->
        IF list[i].tempId = tempId
        THEN [list[i] EXCEPT !.isProcessing = FALSE, ![field] = value,
                             !.updates = @ + 1]
        ELSE list[i]]

\* processFile lines 48-57: where the invocation first suspends, or that it
\* throws at line 56 before suspending
processFile(file, tempId) ==
    [file |-> file, tempId |-> tempId,
     pc |-> IF StartsWith(file.type, VideoPrefix) THEN "loading"
            ELSE IF StartsWith(file.type, ImagePrefix) THEN "reading"
            ELSE "unsupported"]

FilesInit == files = <<>> /\ fileTasks = <<>> /\ clock = 0

\* handleFiles (lines 65-87): the records of the media files are appended,
\* then processFile is called for i = 0.. with incomingFiles[i] and the
\* tempId of newFiles[i]
HandleFiles ==
    /\ clock <= MaxClock
    /\ \E incomingFiles \in Batches : \E now \in [1..MaxBatch -> clock..MaxClock] :
         LET kept == SelectSeq(incomingFiles, IsMedia)
             newFiles ==
                 [i \in 1..Len(kept) |->
                     [tempId |-> <<kept[i].name, now[i]>>, name |-> kept[i].name,
                      type |-> kept[i].type, dataUrl |-> "", isProcessing |-> TRUE,
                      frames |-> Null, error |-> Null, updates |-> 0]]
             started ==
                 [i \in 1..Len(kept) |-> processFile(incomingFiles[i], newFiles[i].tempId)]
             appended == files \o newFiles
             thrown(i) ==
                 {j \in 1..Len(started) :
                     started[j].pc = "unsupported" /\ started[j].tempId = appended[i].tempId}
         IN  /\ Len(kept) > 0
             /\ \A i \in 1..(MaxBatch - 1) : now[i] <= now[i + 1]
             /\ files' = [i \in 1..Len(appended) |->
                            IF thrown(i) = {} THEN appended[i]
                            ELSE [appended[i] EXCEPT
                                     !.isProcessing = FALSE,
                                     !.error = Some("Unsupported file type."),
                                     !.updates = @ + Cardinality(thrown(i))]]
             /\ fileTasks' = fileTasks \o SelectSeq(started, LAMBDA t : t.pc # "unsupported")
             /\ clock' = now[Len(kept)] + 1
    /\ UNCHANGED <<appVars, parseVars, prioVars>>

\* the task at position k leaves the list
WithoutTask(k) == [i \in 1..(Len(fileTasks) - 1) |-> fileTasks[IF i < k THEN i ELSE i + 1]]

\* readFileAsDataURL settles (lines 28-35) and processFile goes on (54, 58-61)
ReadSettle ==
    \E k \in 1..Len(fileTasks) : \E ok \in BOOLEAN :
        /\ fileTasks[k].pc = "reading"
        /\ files' = IF ok
                    THEN Updated(files, fileTasks[k].tempId, "dataUrl",
                                 "data:image/png;base64,AAAA")
                    ELSE Updated(files, fileTasks[k].tempId, "error",
                                 Some("Failed to process file."))
        /\ fileTasks' = WithoutTask(k)
        /\ UNCHANGED <<clock, appVars, parseVars, prioVars>>

\* extractFramesFromVideo up to the metadata (lines 11-34): no canvas
\* context (line 18), metadata with no duration (31-34), metadata loaded, or
\* a load error while no error handler is registered yet (line 67 is inside
\* onloadedmetadata), after which the promise never settles
VideoLoad ==
    \E k \in 1..Len(fileTasks) :
        \E outcome \in {"noContext", "noDuration", "metadata", "errorBeforeMetadata"} :
            /\ fileTasks[k].pc = "loading"
            /\ CASE outcome = "noContext" ->
                      /\ files' = Updated(files, fileTasks[k].tempId, "error",
                                          Some("Canvas 2D context is not available."))
                      /\ fileTasks' = WithoutTask(k)
                 [] outcome = "noDuration" ->
                      /\ files' = Updated(files, fileTasks[k].tempId, "error",
                                          Some("Video has no duration or is invalid."))
                      /\ fileTasks' = WithoutTask(k)
                 [] outcome = "metadata" ->
                      /\ fileTasks' = [fileTasks EXCEPT ![k].pc = "seeking"]
                      /\ UNCHANGED files
                 [] outcome = "errorBeforeMetadata" ->
                      /\ fileTasks' = [fileTasks EXCEPT ![k].pc = "stuck"]
                      /\ UNCHANGED files
            /\ UNCHANGED <<clock, appVars, parseVars, prioVars>>

\* extractFramesFromVideo after the metadata (lines 36-76): the frames are
\* resolved (line 43), a frame cannot be drawn (63), or the video errors (69)
VideoSettle ==
    \E k \in 1..Len(fileTasks) : \E outcome \in {"frames", "drawFailed", "loadError"} :
        /\ fileTasks[k].pc = "seeking"
        /\ files' =
             CASE outcome = "frames" ->
                      Updated(files, fileTasks[k].tempId, "frames",
                              Some(<<"data:image/jpeg;base64,BBBB">>))
               [] outcome = "drawFailed" ->
                      Updated(files, fileTasks[k].tempId, "error",
                              Some("Failed to draw video frame on canvas: SecurityError"))
               [] outcome = "loadError" ->
                      Updated(files, fileTasks[k].tempId, "error",
                              Some("Error loading video file. It may be corrupt or in an unsupported format."))
        /\ fileTasks' = WithoutTask(k)
        /\ UNCHANGED <<clock, appVars, parseVars, prioVars>>

\* handleRemoveFile (lines 132-134)
HandleRemoveFile ==
    \E r \in 1..Len(files) :
        /\ files' = SelectSeq(files, LAMBDA f : f.tempId # files[r].tempId)
        /\ UNCHANGED <<fileTasks, clock, appVars, parseVars, prioVars>>

FilesNext == HandleFiles \/ ReadSettle \/ VideoLoad \/ VideoSettle \/ HandleRemoveFile

----------------------------------------------------------------------------

Next ==
    \/ HandleAnalyze
    \/ AnalyzeSettle
    \/ HandleGenerateFullPlan
    \/ PlanSettle
    \/ PrioSettle
    \/ TraceSettle
    \/ HandleEnhancePrd
    \/ EnhanceSettle
    \/ ContinueToGeneratePlan
    \/ HandleGenerateQaDocs
    \/ DocsSettle
    \/ OpenResetModal
    \/ CloseResetModal
    \/ HandleReset

ParseIdle ==
    /\ tblLayout = Columns
    /\ tblDrop = 0
    /\ tblSep = 3
    /\ tblRows = <<>>
    /\ parseOut = <<>>
    /\ parsePc = "input"

Init == AppInit /\ ParseIdle /\ PrioInit /\ FilesInit

Spec == Init /\ [][Next]_vars

\* the external call that the invocation in slot k awaits settles
Settles(k) ==
    /\ tasks[k].pc = "await"
    /\ \/ AnalyzeSettle \/ PlanSettle \/ PrioSettle
       \/ TraceSettle \/ EnhanceSettle \/ DocsSettle
    /\ tasks'[k] # tasks[k]

\* every external call in flight eventually resolves or rejects
SpecFair == Spec /\ \A k \in TaskSlots : WF_vars(Settles(k))

\* the table parser alone, on the tables of ParseInit
ParserInit == AppInit /\ ParseInit /\ PrioInit /\ FilesInit

SpecParser == ParserInit /\ [][ParseNext]_vars

\* the prioritization merge alone
SpecPrioritize == Init /\ [][PrioNext]_vars

\* the attachment list of PRDInput alone
SpecFiles == Init /\ [][FilesNext]_vars

\* the prioritized list and the plan view that edits it
SpecPlanView == Init /\ [][PrioNext \/ ShowPlan \/ HandleUpdateTestCase]_vars

\* every pending file read and video event is eventually delivered
SpecFilesFair ==
    SpecFiles /\ WF_vars(ReadSettle) /\ WF_vars(VideoLoad) /\ WF_vars(VideoSettle)

----------------------------------------------------------------------------
(* Properties of the pipeline                                              *)

PlanTasks == {k \in TaskSlots : tasks[k].op = "plan"}

IssuesOf(log) == SelectSeq(log, LAMBDA e : e.ev = "issue")

\* the calls issued and not yet settled before position i of a log
InFlightBefore(log, i) ==
    Cardinality({j \in 1..(i - 1) : log[j].ev = "issue"})
        - Cardinality({j \in 1..(i - 1) : log[j].ev = "settled"})

ResolvedBefore(log, i, stage) ==
    \E j \in 1..(i - 1) :
        log[j].ev = "settled" /\ log[j].stage = stage /\ log[j].outcome = "resolve"

\* C1: in every run the external calls are issued one after the other in
\* the order plan, prioritization, traceability: the prioritization call
\* only after the plan call has resolved, the traceability call only after
\* the prioritization call has resolved, and never two calls in flight
C1_StagesSequential ==
    \A k \in PlanTasks :
        LET log == tasks[k].run.log
            issues == IssuesOf(log)
        IN  /\ Len(issues) <= 3
            /\ \A n \in 1..Len(issues) : issues[n].stage = <<"plan", "prio", "trace">>[n]
            /\ \A i \in 1..Len(log) :
                   log[i].ev = "issue" =>
                       /\ InFlightBefore(log, i) = 0
                       /\ log[i].stage = "prio" => ResolvedBefore(log, i, "plan")
                       /\ log[i].stage = "trace" => ResolvedBefore(log, i, "prio")

C1_Witness ==
    \E k \in PlanTasks :
        /\ tasks[k].run.pc = "resolved"
        /\ Len(IssuesOf(tasks[k].run.log)) = 3

\* the plan call of the run is the only call settled so far, it resolved
\* with a well-formed plan, and the plan's markdown parses to no record
PlanParsedToNothing(run) ==
    /\ Cardinality({i \in 1..Len(run.log) : run.log[i].ev = "settled"}) = 1
    /\ run.settled # Null
    /\ run.settled[1].kind = "resolve"
    /\ ValidPlan(run.settled[1].body)
    /\ parseMarkdownTable(run.settled[1].body.markdown[1]) = <<>>

ParseFailureMessage ==
    "Failed to generate and prioritize test plan. "
        \o "Failed to parse any test cases from the generated markdown."

\* C2: when the plan's markdown parses to zero records the run rejects with
\* the "failed to parse any test cases" error, neither the prioritization
\* nor the traceability call is issued, and the PRIORITIZING_PLAN and
\* GENERATING_TRACEABILITY progress callbacks do not fire
C2_EmptyParseRejects ==
    \A k \in PlanTasks :
        PlanParsedToNothing(tasks[k].run) =>
            /\ tasks[k].pc = "done"
            /\ tasks[k].run.pc = "rejected"
            /\ tasks[k].run.error = Some(Err(ParseFailureMessage))
            /\ error = Some(ParseFailureMessage)
            /\ \A i \in 1..Len(tasks[k].run.log) :
                   /\ tasks[k].run.log[i].ev = "issue" => tasks[k].run.log[i].stage = "plan"
                   /\ tasks[k].run.log[i].ev = "progress" =>
                          tasks[k].run.log[i].stage = "GENERATING_PLAN"

C2_Witness ==
    \E k \in PlanTasks :
        /\ PlanParsedToNothing(tasks[k].run)
        /\ tasks[k].run.settled[1].body.markdown[1] # <<>>
        /\ tasks[k].run.pc = "rejected"
        /\ step = "ANALYSIS_COMPLETE"

FailedAt(log) == {i \in 1..Len(log) : log[i].ev = "failed"}

\* the stored result is whole: prioritized test cases together with the
\* Gherkin text and the traceability matrix of a run that returned
StoredResultWhole ==
    testCases # Null =>
        /\ gherkin # Null
        /\ traceabilityMatrix # Null
        /\ \A i \in 1..Len(testCases[1]) :
               {"priority", "priority_reasoning"} \subseteq DOMAIN testCases[1][i]

\* C3: when a stage fails the run stops there: no later call is issued, the
\* run rejects, nothing is returned, and the caller holds no partial result
C3_FailFast ==
    /\ \A k \in PlanTasks :
           LET run == tasks[k].run
           IN  FailedAt(run.log) # {} =>
                   /\ FailedAt(run.log) = {Len(run.log)}
                   /\ run.pc = "rejected"
                   /\ run.result = Null
                   /\ run.error # Null
                   /\ tasks[k].pc = "done"
                   /\ step = "ANALYSIS_COMPLETE"
                   /\ error = Some(run.error[1].message)
    /\ StoredResultWhole

C3_Witness ==
    \E k \in PlanTasks :
        /\ tasks[k].run.log[Len(tasks[k].run.log)] = Failed("prio")
        /\ tasks[k].run.parsed # <<>>
        /\ testCases = Null

E2EPrioritized ==
    [id |-> TextTC1, type |-> TextManual, summary |-> TextLoginWorks,
     preconditions |-> DefNone, steps |-> TextSteps, expectedResult |-> TextRedirect,
     storyId |-> TextUS101, risk |-> TextLow,
     priority |-> "P1", priority_reasoning |-> "Auth is critical"]

\* C10: the end-to-end table parses to the one record TC-1 with its eight
\* fields; the response giving TC-1 priority P1 yields priority P1; and the
\* traceability response with the one entry for US-101 yields one entry
C10_EndToEnd ==
    \A k \in PlanTasks :
        LET run == tasks[k].run
        IN  (run.settled # Null /\ run.settled[1].kind = "resolve"
                /\ ((run.plan # Null /\ run.plan[1].markdown = E2EMarkdown)
                    \/ (run.pc = "rejected" /\ Len(run.log) = 4
                        /\ ValidPlan(run.settled[1].body)
                        /\ run.settled[1].body.markdown = Some(E2EMarkdown)))) =>
                /\ run.plan # Null
                /\ run.parsed = <<E2ERecord>>
                /\ (run.pc = "awaitTrace" /\ run.settled[1].body.kind = "json"
                        /\ run.settled[1].body.prioritized_cases = Some(E2EPrioritizedCases)) =>
                       run.prioritized = <<E2EPrioritized>>
                /\ (run.pc = "resolved" /\ run.settled[1].body.matrix = Some(E2EMatrix)) =>
                       /\ Len(run.result[1].traceabilityMatrix.matrix) = 1
                       /\ run.result[1].traceabilityMatrix.matrix = E2EMatrix
                       /\ run.result[1].testCases = run.prioritized
                       /\ testCases = Some(run.prioritized)
                       /\ traceabilityMatrix = Some([matrix |-> E2EMatrix])

C10_Witness ==
    \E k \in PlanTasks :
        /\ tasks[k].run.pc = "resolved"
        /\ tasks[k].run.plan[1].markdown = E2EMarkdown
        /\ tasks[k].run.prioritized = <<E2EPrioritized>>
        /\ tasks[k].run.settled[1].body.matrix = Some(E2EMatrix)
        /\ step = "PLAN_GENERATED"

----------------------------------------------------------------------------
(* Properties of the prioritization merge                                  *)

InputFields == DOMAIN FilledRow("1")

\* C4: the merged list has the input's length, and its i-th element has the
\* id and the other non-priority fields of the i-th input record, whatever
\* ids the response omits, repeats or invents
C4_MergeOneToOne ==
    prioPc = "merged" =>
        /\ Len(prioOut) = Len(prioIn)
        /\ \A i \in 1..Len(prioIn) :
               /\ DOMAIN prioOut[i] = InputFields \cup {"priority", "priority_reasoning"}
               /\ \A f \in InputFields : prioOut[i][f] = prioIn[i][f]

ResponseIds == {prioResp[j].test_case_id : j \in 1..Len(prioResp)}

C4_Witness ==
    /\ prioPc = "merged"
    /\ Len(prioIn) = 2
    /\ \E i \in 1..Len(prioIn) : prioIn[i].id \notin ResponseIds
    /\ \E id \in ResponseIds : \A i \in 1..Len(prioIn) : prioIn[i].id # id
    /\ \E j1, j2 \in 1..Len(prioResp) :
           j1 < j2 /\ prioResp[j1].test_case_id = prioResp[j2].test_case_id

EntriesOf(id) == {j \in 1..Len(prioResp) : prioResp[j].test_case_id = id}

\* C5: a record whose id the response names gets the priority and the
\* reasoning of the response entry of that id (the last one when the id is
\* repeated); a record whose id the response does not name gets "P2" and
\* "N/A - Defaulted"
C5_PriorityOrDefault ==
    prioPc = "merged" =>
        \A i \in 1..Len(prioIn) :
            IF EntriesOf(prioIn[i].id) = {}
            THEN /\ prioOut[i].priority = "P2"
                 /\ prioOut[i].priority_reasoning = "N/A - Defaulted"
            ELSE \E j \in EntriesOf(prioIn[i].id) :
                     /\ \A h \in EntriesOf(prioIn[i].id) : h <= j
                     /\ prioOut[i].priority = prioResp[j].priority
                     /\ prioOut[i].priority_reasoning = prioResp[j].reasoning

C5_Witness ==
    /\ prioPc = "merged"
    /\ \E i \in 1..Len(prioIn) : EntriesOf(prioIn[i].id) = {}
    /\ \E i \in 1..Len(prioIn) :
           /\ Cardinality(EntriesOf(prioIn[i].id)) >= 2
           /\ \E j1, j2 \in EntriesOf(prioIn[i].id) :
                  prioResp[j1].priority # prioResp[j2].priority

----------------------------------------------------------------------------
(* Properties of the table parser                                          *)

\* the table's data rows are all kept by the line filter and the separator
\* row is dropped by it: record i then comes from data row i
RowsAligned ==
    /\ tblSep \in {0, 3, 4}
    /\ \A i \in 1..Len(tblRows) : \A c \in ColumnSet : ~Includes(tblRows[i][c], Dashes3)

BlankOnly(row, col) ==
    row[col] = <<>> /\ \A c \in ColumnSet \ {col} : row[c] # <<>>

\* C6: a data row whose "Story ID" cell is blank, its other cells filled, is
\* parsed into a record whose storyId is "N/A" and whose other fields hold
\* the text of their own columns
C6_BlankStoryIdIsNA ==
    (parsePc = "parsed" /\ tblDrop = 0 /\ RowsAligned) =>
        /\ Len(parseOut) = Len(tblRows)
        /\ \A i \in 1..Len(tblRows) :
               BlankOnly(tblRows[i], "storyId") =>
                   /\ parseOut[i].storyId = DefNA
                   /\ \A c \in ColumnSet \ {"storyId"} : parseOut[i][c] = tblRows[i][c]

\* C7: under every order of the eight headers, the rows' cells ordered the
\* same way, the parser returns the records it returns for the documented order
C7_HeaderOrderIndependent ==
    (parsePc = "parsed" /\ tblDrop = 0) =>
        parseOut = parseMarkdownTable(Markdown(Columns, 0, tblSep, tblRows))

\* C8: a header row that lacks one of the eight required names makes the
\* parser return the empty list, whatever data rows follow
C8_MissingHeaderYieldsEmpty ==
    (parsePc = "parsed" /\ tblDrop # 0) => parseOut = <<>>

C8_Witness ==
    /\ parsePc = "parsed"
    /\ tblDrop # 0
    /\ tblSep = 3
    /\ Len(tblRows) = MaxRows
    /\ \A i \in 1..Len(tblRows) : \A c \in ColumnSet : tblRows[i][c] # <<>>

\* C9: the table lines are exactly the lines that start with a pipe and are
\* not a separator row (dashes, colons and pipes only): the separator row is
\* left out whatever its number of dashes, and every data row, one with the
\* text "---" in a cell included, is kept and parsed into a record
C9_TableLinesExact ==
    parsePc = "parsed" =>
        /\ TableLines(TableMarkdown) =
               <<<<" ">> \o HeaderLine(tblLayout, tblDrop)>>
                   \o [i \in 1..Len(tblRows) |-> RowLine(tblLayout, tblRows[i])]
        /\ tblDrop = 0 => Len(parseOut) = Len(tblRows)

\* C23: with all eight headers present the parser returns exactly one record
\* per data row, in row order, every field of every record a non-empty text:
\* a row with blank cells still yields its record, and a row with every cell
\* filled yields the record of its own cells
C23_OneRecordPerRow ==
    (parsePc = "parsed" /\ tblDrop = 0) =>
        /\ Len(parseOut) = Len(tblRows)
        /\ \A i \in 1..Len(parseOut) : \A c \in ColumnSet : parseOut[i][c] # <<>>
        /\ \A i \in 1..Len(tblRows) :
               (\A c \in ColumnSet : tblRows[i][c] # <<>>) =>
                   \A c \in ColumnSet : parseOut[i][c] = tblRows[i][c]

----------------------------------------------------------------------------
(* Properties of the caller's handlers                                     *)

\* the invocations that have just finished
DoneTasks(op) == {k \in TaskSlots : tasks[k].op = op /\ tasks[k].pc = "done"}

\* analyzeInputs lines 223-224: the call rejected, or its body is not the
\* JSON of an object with a findings array
AnalysisFailed(outcome) ==
    ~(outcome.kind = "resolve" /\ outcome.body.kind = "json"
        /\ outcome.body.findings # Null)

ErrorShown == error # Null /\ error[1] # "" /\ ~isLoading

\* C11: a failed operation takes the step back to the last stage that holds
\* valid data, with the error set and isLoading false: a failed analysis to
\* PRD_INPUT, a failed plan run to ANALYSIS_COMPLETE with the analysis held,
\* a failed documentation call to PLAN_GENERATED with test cases, Gherkin
\* and matrix held
C11_FailureStepsBack ==
    /\ \A k \in DoneTasks("analyze") :
           AnalysisFailed(tasks[k].run.settled[1]) =>
               step = "PRD_INPUT" /\ ErrorShown
    /\ \A k \in DoneTasks("plan") :
           tasks[k].run.pc = "rejected" =>
               step = "ANALYSIS_COMPLETE" /\ analysis # Null /\ ErrorShown
    /\ \A k \in DoneTasks("docs") :
           tasks[k].run.settled[1].kind = "reject" =>
               /\ step = "PLAN_GENERATED" /\ ErrorShown
               /\ testCases # Null /\ gherkin # Null /\ traceabilityMatrix # Null

ValidationMessage == "At least one input (PRD, File, or Figma URL) is required."

\* C16: a call outstanding at handleReset is discarded when it settles: from
\* the reset until new input is submitted (inputData is null) step stays
\* PRD_INPUT, analysis, testCases, gherkin, traceabilityMatrix and qaDocs
\* stay null, and error is what the reset or the input validation gave it
C16_ResetDiscardsOutstanding ==
    inputData = Null =>
        /\ step = "PRD_INPUT"
        /\ analysis = Null
        /\ testCases = Null
        /\ gherkin = Null
        /\ traceabilityMatrix = Null
        /\ qaDocs = Null
        /\ error \in {Null, Some(ValidationMessage)}

\* C12: in the result of a run that returned, every story_id of the
\* traceability matrix is the storyId of a test case of the result, and
\* every test-case id an entry lists is the id of a test case of the result
C12_MatrixRefersToResult ==
    \A k \in PlanTasks :
        tasks[k].run.pc = "resolved" =>
            LET cases == tasks[k].run.result[1].testCases
                matrix == tasks[k].run.result[1].traceabilityMatrix.matrix
            IN  \A e \in 1..Len(matrix) :
                    /\ \E i \in 1..Len(cases) : cases[i].storyId = matrix[e].story_id
                    /\ \A j \in 1..Len(matrix[e].test_case_ids) :
                           \E i \in 1..Len(cases) :
                               cases[i].id = matrix[e].test_case_ids[j]

Blank(text) == \A i \in 1..Len(text) : IsSpace(text[i])

\* the bundle has no free text, no design URL and no attachment
EmptyBundle(input) ==
    Blank(input.prdText) /\ Blank(input.figmaUrl) /\ input.files = <<>>

\* no file of the bundle gives a part: it is neither an image nor a video
\* with frames
NoFileParts(input) ==
    \A i \in 1..Len(input.files) :
        /\ ~StartsWith(input.files[i].type, ImagePrefix)
        /\ ~(StartsWith(input.files[i].type, VideoPrefix)
               /\ input.files[i].frames # Null /\ input.files[i].frames[1] # <<>>)

\* this step issues no external call
NoCallIssued ==
    \A k \in TaskSlots :
        tasks'[k].pc = "await" => (tasks[k].pc = "await" /\ tasks'[k] = tasks[k])

\* C13: handleAnalyze on a bundle with no text, no URL and no attachment
\* sets the validation error, leaves step, inputData and the stored results
\* unchanged and issues no call; on a bundle that yields no part,
\* analyzeInputs rejects with "No content to analyze." before the call
C13_EmptyInputNoCall ==
    [][\A input \in InputChoices :
           handleAnalyze(input) =>
               /\ EmptyBundle(input) =>
                      /\ error' = Some(ValidationMessage)
                      /\ UNCHANGED <<step, inputData, analysis, testCases, gherkin,
                                     traceabilityMatrix, qaDocs, isLoading>>
                      /\ NoCallIssued
               /\ (~EmptyBundle(input) /\ input.prdText = <<>> /\ input.figmaUrl = <<>>
                       /\ NoFileParts(input)) =>
                      /\ error' = Some("Failed to get analysis from Gemini API. "
                                           \o "No content to analyze.")
                      /\ step' = "PRD_INPUT" /\ isLoading' = FALSE
                      /\ analysis' = Null
                      /\ NoCallIssued]_vars

C13_Witness ==
    /\ error = Some(ValidationMessage)
    /\ inputData = Null
    /\ step = "PRD_INPUT"
    /\ \A k \in TaskSlots : tasks[k].pc = "done"

----------------------------------------------------------------------------
(* Properties of the attachment list                                       *)

\* a record is ready (dataUrl or frames populated) or in error, not both
ReadyOrError(f) ==
    (f.dataUrl # "" \/ (f.frames # Null /\ f.frames[1] # <<>>)) # (f.error # Null)

\* C14: every record is created processing and, unless removed, is
\* eventually updated, exactly once, to ready or to error, whatever the
\* outcome of the file read or the video load (a video failing before its
\* metadata included), and is not modified after that update
C14_SettledExactlyOnce ==
    /\ [](\A i \in 1..Len(files) :
              /\ files[i].updates <= 1
              /\ files[i].isProcessing <=> files[i].updates = 0
              /\ ~files[i].isProcessing => ReadyOrError(files[i]))
    /\ <>[](\A i \in 1..Len(files) : ~files[i].isProcessing)

\* C15: the records of the list have pairwise distinct tempIds, so that the
\* completion of one attachment's task rewrites that attachment's record only
C15_DistinctTempIds ==
    \A i, j \in 1..Len(files) : i # j => files[i].tempId # files[j].tempId

----------------------------------------------------------------------------
(* Properties of the error messages and of the calls issued                *)

Contains(s, sub) ==
    \E i \in 1..(Len(s) - Len(sub) + 1) : SubSeq(s, i, i + Len(sub) - 1) = sub

\* the words by which the message of each operation names it
OperationName(op) ==
    CASE op = "analyze" -> "analysis"
      [] op = "plan" -> "test plan"
      [] op = "docs" -> "QA documentation"
      [] op = "enhance" -> "enhance PRD"

\* C17: when the external call of an operation (analysis, plan generation,
\* QA documentation, PRD enhancement) rejects, the error shown names the
\* operation and contains the message of what was thrown, be it an Error or
\* another value
C17_ErrorKeepsMessage ==
    \A k \in TaskSlots :
        (tasks[k].pc = "done" /\ tasks[k].op # "none"
             /\ tasks[k].run.settled[1].kind = "reject") =>
            /\ error # Null
            /\ Contains(error[1], OperationName(tasks[k].op))
            /\ Contains(error[1], tasks[k].run.settled[1].thrown.message)

IssuedFor(log, stage) == Cardinality({i \in 1..Len(log) : log[i] = Issue(stage)})

\* C18: no call is retried: a run of generateFullTestPlan issues each of the
\* plan, prioritization and traceability calls at most once, and analyzeInputs
\* and generateQaDocumentation issue at most one call per invocation, whether
\* the call succeeds or fails
C18_NoRetry ==
    \A k \in TaskSlots :
        LET log == tasks[k].run.log
        IN  IF tasks[k].op = "plan"
            THEN /\ \A stage \in {"plan", "prio", "trace"} : IssuedFor(log, stage) <= 1
                 /\ Len(IssuesOf(log)) <= 3
                 /\ \A i \in 1..Len(log) :
                        log[i].ev = "issue" => log[i].stage \in {"plan", "prio", "trace"}
            ELSE Len(IssuesOf(log)) <= 1

C18_Witness ==
    \E k \in PlanTasks :
        /\ tasks[k].pc = "done"
        /\ tasks[k].run.pc = "rejected"
        /\ tasks[k].run.settled[1].kind = "reject"
        /\ Len(IssuesOf(tasks[k].run.log)) = 2

ProgressOf(log) == SelectSeq(log, LAMBDA e : e.ev = "progress")

ProgressStates == <<"GENERATING_PLAN", "PRIORITIZING_PLAN", "GENERATING_TRACEABILITY">>

\* C19: in a run the progress callback of a stage fires right before the
\* stage's call is issued and, after the first stage, right after the
\* previous stage's call resolved; it fires only with GENERATING_PLAN,
\* PRIORITIZING_PLAN, GENERATING_TRACEABILITY, each at most once and in
\* that order, three times in a run that returns, never after the rejection
C19_ProgressOrder ==
    \A k \in PlanTasks :
        LET run == tasks[k].run
            log == run.log
            fired == ProgressOf(log)
        IN  /\ Len(fired) <= 3
            /\ \A n \in 1..Len(fired) : fired[n].stage = ProgressStates[n]
            /\ \A i \in 1..Len(log) :
                   log[i].ev = "progress" =>
                       /\ i < Len(log)
                       /\ log[i + 1].ev = "issue"
                       /\ log[i + 1].stage =
                              (CASE log[i].stage = "GENERATING_PLAN" -> "plan"
                                 [] log[i].stage = "PRIORITIZING_PLAN" -> "prio"
                                 [] log[i].stage = "GENERATING_TRACEABILITY" -> "trace")
                       /\ i > 1 => /\ log[i - 1].ev = "settled"
                                   /\ log[i - 1].outcome = "resolve"
                       /\ \A j \in 1..(i - 1) : log[j].ev # "failed"
            /\ \A i \in 1..Len(log) :
                   log[i].ev = "issue" => (i > 1 /\ log[i - 1].ev = "progress")
            /\ run.pc = "resolved" => Len(fired) = 3

C19_Witness ==
    \E k \in PlanTasks :
        /\ tasks[k].run.pc = "resolved"
        /\ Len(ProgressOf(tasks[k].run.log)) = 3
        /\ step = "PLAN_GENERATED"

\* the plan call of the run resolved with JSON that lacks a string markdown
\* or a string gherkin, and no other call has settled
PlanLacksField(run) ==
    /\ Cardinality({i \in 1..Len(run.log) : run.log[i].ev = "settled"}) = 1
    /\ run.settled # Null
    /\ run.settled[1].kind = "resolve"
    /\ run.settled[1].body.kind = "json"
    /\ (run.settled[1].body.markdown = Null \/ run.settled[1].body.gherkin = Null)

\* C20: a decoded plan response without a string markdown or a string
\* gherkin fails the plan stage with "Invalid test plan response format.":
\* the table parser is not run on it, no prioritization call is issued and
\* the run rejects
C20_InvalidPlanRejects ==
    \A k \in PlanTasks :
        PlanLacksField(tasks[k].run) =>
            /\ tasks[k].run.pc = "rejected"
            /\ tasks[k].run.error =
                   Some(Err("Failed to generate and prioritize test plan. "
                                \o "Invalid test plan response format."))
            /\ tasks[k].run.plan = Null
            /\ tasks[k].run.parsed = <<>>
            /\ IssuesOf(tasks[k].run.log) = <<Issue("plan")>>
            /\ tasks[k].run.log[Len(tasks[k].run.log)] = Failed("plan")

C20_Witness ==
    \E k \in PlanTasks :
        /\ PlanLacksField(tasks[k].run)
        /\ tasks[k].run.settled[1].body.markdown = Some(E2EMarkdown)
        /\ tasks[k].run.pc = "rejected"
        /\ step = "ANALYSIS_COMPLETE"

-----------------------------------------------------------------------------
(* Properties of the request parts                                         *)

\* the kind of every part of a request: "text", or the MIME type of an
\* inline part
PartKinds(parts) ==
    [i \in 1..Len(parts) |->
        IF "text" \in DOMAIN parts[i] THEN <<"text">>
        ELSE parts[i].inlineData.mimeType]

StatedFileKinds(file) ==
    IF StartsWith(file.type, ImagePrefix) THEN << <<"text">>, file.type >>
    ELSE IF StartsWith(file.type, VideoPrefix) /\ file.frames # Null
                /\ Len(file.frames[1]) > 0
    THEN << <<"text">> >> \o [i \in 1..Len(file.frames[1]) |-> JpegMime]
    ELSE <<>>

RECURSIVE StatedAllFileKinds(_)
StatedAllFileKinds(fileList) ==
    IF fileList = <<>> THEN <<>>
    ELSE StatedFileKinds(Head(fileList)) \o StatedAllFileKinds(Tail(fileList))

StatedKinds(inputs, additionalContext) ==
    (IF inputs.prdText # <<>> THEN << <<"text">> >> ELSE <<>>)
        \o (IF inputs.figmaUrl # <<>> THEN << <<"text">> >> ELSE <<>>)
        \o StatedAllFileKinds(inputs.files)
        \o (IF additionalContext # Null THEN << <<"text">> >> ELSE <<>>)

ContextChoices ==
    {Null, Some(<<"x">>)}

\* C21: for the input bundle the caller holds, buildMultimodalPrompt returns a
\* text part for the free text if present, a second and separate text part for
\* the design URL if present, then per attachment in input order a text part
\* followed by one inline part (image) or by one image/jpeg part per frame
\* (video with frames) and nothing for a video without frames, and last the
\* additional-instructions text part when supplied.
C21_PartsInStatedOrder ==
    inputData # Null =>
        \A ctx \in ContextChoices :
            PartKinds(buildMultimodalPrompt(inputData[1], ctx))
                = StatedKinds(inputData[1], ctx)

InlineParts(parts) ==
    {i \in 1..Len(parts) : "inlineData" \in DOMAIN parts[i]}

\* C28: every inline part of a request built for the bundle the caller holds
\* carries a defined, non-empty payload: an attachment whose dataUrl is still
\* the empty placeholder (its read failed) contributes no part.
C28_InlinePartsCarryData ==
    inputData # Null =>
        \A ctx \in ContextChoices :
            LET parts == buildMultimodalPrompt(inputData[1], ctx)
            IN  \A i \in InlineParts(parts) :
                    /\ parts[i].inlineData.data # Null
                    /\ parts[i].inlineData.data[1] # <<>>

-----------------------------------------------------------------------------
(* Properties of the files handed to processFile                           *)

\* C26: every record being processed is processed with the file it was
\* created from (same name and type), and no record, all of which are made
\* from supported files, is marked "Unsupported file type.", also when the
\* batch held unsupported files.
C26_RecordProcessedWithItsFile ==
    /\ \A k \in 1..Len(fileTasks) : \A i \in 1..Len(files) :
           files[i].tempId = fileTasks[k].tempId =>
               /\ files[i].name = fileTasks[k].file.name
               /\ files[i].type = fileTasks[k].file.type
    /\ \A i \in 1..Len(files) : files[i].error # Some("Unsupported file type.")

-----------------------------------------------------------------------------
(* Properties of the caller's views                                        *)

\* C27: every handleReset step clears all generated data: step is PRD_INPUT,
\* isLoading is false and inputData, analysis, testCases, gherkin, traceabilityMatrix,
\* qaDocs, enhancedPrd and error are all null.
C27_ResetClearsAll ==
    [][HandleReset =>
          /\ step' = "PRD_INPUT" /\ ~isLoading'
          /\ inputData' = Null /\ analysis' = Null /\ testCases' = Null
          /\ gherkin' = Null /\ traceabilityMatrix' = Null /\ qaDocs' = Null
          /\ enhancedPrd' = Null /\ error' = Null]_vars

InProgressSteps ==
    {"GENERATING_PLAN", "PRIORITIZING_PLAN", "GENERATING_TRACEABILITY", "GENERATING_QA_DOCS"}

InFlight(op) == \E k \in TaskSlots : tasks[k].op = op /\ tasks[k].pc = "await"

\* C24: whenever the step is GENERATING_PLAN, PRIORITIZING_PLAN,
\* GENERATING_TRACEABILITY or GENERATING_QA_DOCS, isLoading is true and a
\* call of the corresponding operation (the plan run, the documentation
\* call) is in flight.
C24_InProgressHasCall ==
    step \in InProgressSteps =>
        /\ isLoading
        /\ InFlight(IF step = "GENERATING_QA_DOCS" THEN "docs" ELSE "plan")

CallsInFlight == {k \in TaskSlots : tasks[k].pc = "await"}

\* C25: at most one operation (analysis, PRD enhancement, plan generation,
\* documentation generation) has an external call in flight at any time.
C25_OneOperationInFlight ==
    Cardinality(CallsInFlight) <= 1

StoredPlan == <<testCases, gherkin, traceabilityMatrix>>

\* the result of a plan run that has just resolved, as the caller stores it
ResolvedPlans ==
    {<<Some(tasks[k].run.result[1].testCases), Some(tasks[k].run.result[1].gherkin),
       Some(tasks[k].run.result[1].traceabilityMatrix)>> :
        k \in {j \in DoneTasks("plan") : tasks[j].run.pc = "resolved"}}

\* C22: the stored pipeline result comes from a single run: testCases, gherkin
\* and traceabilityMatrix are all null or all set, and every step that
\* changes one of them either clears all three or replaces all three by the
\* result of one run that resolved in that step.
C22_ResultFromOneRun ==
    /\ [](StoredPlan = <<Null, Null, Null>>
             \/ (testCases # Null /\ gherkin # Null /\ traceabilityMatrix # Null))
    /\ [][StoredPlan' # StoredPlan =>
             (StoredPlan' = <<Null, Null, Null>> \/ StoredPlan' \in ResolvedPlans')]_vars

C22_Witness ==
    /\ StoredPlan \in ResolvedPlans
    /\ \E k \in TaskSlots : tasks[k].op = "plan" /\ tasks[k].pc = "await"

StableSteps ==
    {"PRD_INPUT", "ANALYSIS_COMPLETE", "ENHANCE_PRD", "PLAN_GENERATED", "QA_DOCS_GENERATED"}

\* the handler invocation in slot k has just ended
Ended(k) ==
    /\ tasks[k].pc = "done" /\ tasks[k].op # "none"
    /\ ~isLoading /\ progressMessage = "" /\ step \in StableSteps

\* C30: if every external call eventually settles, every operation the user
\* started (analysis, enhancement, plan generation, documentation) eventually
\* ends with isLoading false, an empty progress message and a stable step;
\* and the step is PLAN_GENERATED only if testCases, gherkin and
\* traceabilityMatrix are all set.
C30_OperationsEnd ==
    /\ \A k \in TaskSlots : (tasks[k].pc = "await") ~> Ended(k)
    /\ [](step = "PLAN_GENERATED" =>
             (testCases # Null /\ gherkin # Null /\ traceabilityMatrix # Null))

-----------------------------------------------------------------------------
(* Properties of the plan view                                             *)

ChangedRecords ==
    {i \in 1..Len(editableTestCases[1]) :
        editableTestCases'[1][i] # editableTestCases[1][i]}

\* C29: saving an edit of one test case changes only that test case: the list
\* keeps its length and order and every other record is unchanged, records
\* that share the edited record's id included.
C29_EditChangesOneRecord ==
    [][(editableTestCases # Null /\ editableTestCases' # editableTestCases) =>
          /\ Len(editableTestCases'[1]) = Len(editableTestCases[1])
          /\ Cardinality(ChangedRecords) <= 1]_vars

====
